---- MODULE Spec2Model ----
(***************************************************************************)
(* Model of the policy-moderation relay of src/llm/main.py: two request    *)
(* handlers (/vet_join, /vet_message), the completion client ask_llm with  *)
(* its catch-all fallback, and the append-only daily audit log.            *)
(*                                                                         *)
(* Time is a wall clock counted in ticks (TicksPerSec ticks per second,    *)
(* TicksPerDay ticks per local calendar day; the day is scaled down so     *)
(* that a date rollover happens inside the explored window).  The clock    *)
(* is the settable wall clock: it advances, and it can be set back.        *)
(***************************************************************************)
EXTENDS Integers, Sequences, FiniteSets, TLC

VARIABLES now, running, pc, req, start, data, entry, fname, files, resp,
          given, overlap

vars == <<now, running, pc, req, start, data, entry, fname, files, resp,
          given, overlap>>

-----------------------------------------------------------------------------
(* Bounds of the exploration *)

MaxClock == 3
TicksPerDay == 2
TicksPerSec == 2000

(* int(x * 1000): seconds to milliseconds, main.py lines 50, 61, 70 *)
MsPerSec == 1000

(* requests, numbered in their order of arrival *)
Reqs == {1, 2}
NoTask == 0
Unset == -1
Dates == 0 .. (MaxClock \div TicksPerDay)

-----------------------------------------------------------------------------
(* JSON values, as json.loads produces them and json.dumps writes them *)

JStr(s) == [t |-> "str", s |-> s]
JBool(b) == [t |-> "bool", b |-> b]
JNum(n) == [t |-> "num", n |-> n]
JNull == [t |-> "null"]
JList == [t |-> "list"]
JObj(o) == [t |-> "obj", o |-> o]
EmptyDict == [k \in {} |-> JNull]
NoVal == [t |-> "unset"]

(* dict.get(key) and dict.get(key, default) *)
GetDefault(o, k, dflt) == IF k \in DOMAIN o THEN o[k] ELSE dflt
Get(o, k) == GetDefault(o, k, JNull)

-----------------------------------------------------------------------------
(* Request bodies and their validation against JoinReq / MsgReq *)

Inputs ==
  { [ep |-> "join", body |-> [name |-> "ann", note |-> "hi"]],
    [ep |-> "message", body |-> [author |-> "bob", body |-> "hello"]],
    [ep |-> "join", body |-> [name |-> "ann"]] }
NoReq == [ep |-> "none"]

Required(ep) == IF ep = "join" THEN {"name", "note"} ELSE {"author", "body"}
Valid(in) == Required(in.ep) \subseteq DOMAIN in.body

-----------------------------------------------------------------------------
(* What the completion backend can do on one call *)

TxtApprove == "{\"decision\":\"approve\",\"reason\":\"ok\"}"
TxtClean == "{\"is_spam\": false, \"reason\":\"clean\"}"
TxtEmpty == "{}"
TxtSpamStr == "{\"is_spam\":\"yes\",\"reason\":\"ad\"}"
TxtMeta == "{\"decision\":\"approve\",\"reason\":\"ok\",\"latency_ms\":999,\"fallback\":true}"
TxtProse == "Sure! I approve."
TxtList == "[1]"
TxtNum == "7"
TxtStr == "\"approve\""
TxtNull == "null"

Texts == {TxtApprove, TxtClean, TxtEmpty, TxtSpamStr, TxtMeta, TxtProse,
          TxtList, TxtNum, TxtStr, TxtNull}

Outcomes ==
  {[kind |-> "raise"], [kind |-> "nochoice"]}
    \cup {[kind |-> "content", txt |-> x] : x \in Texts}
NoOutcome == [kind |-> "none"]

(* json.loads on the contents above: ok = FALSE is a JSONDecodeError *)
JsonLoads(txt) ==
  CASE txt = TxtApprove ->
         [ok |-> TRUE, v |-> JObj([decision |-> JStr("approve"), reason |-> JStr("ok")])]
    [] txt = TxtClean ->
         [ok |-> TRUE, v |-> JObj([is_spam |-> JBool(FALSE), reason |-> JStr("clean")])]
    [] txt = TxtEmpty ->
         [ok |-> TRUE, v |-> JObj(EmptyDict)]
    [] txt = TxtSpamStr ->
         [ok |-> TRUE, v |-> JObj([is_spam |-> JStr("yes"), reason |-> JStr("ad")])]
    [] txt = TxtMeta ->
         [ok |-> TRUE, v |-> JObj([decision |-> JStr("approve"), reason |-> JStr("ok"),
                                   latency_ms |-> JNum(999), fallback |-> JBool(TRUE)])]
    [] txt = TxtList -> [ok |-> TRUE, v |-> JList]
    [] txt = TxtNum -> [ok |-> TRUE, v |-> JNum(7)]
    [] txt = TxtStr -> [ok |-> TRUE, v |-> JStr("approve")]
    [] txt = TxtNull -> [ok |-> TRUE, v |-> JNull]
    [] OTHER -> [ok |-> FALSE, v |-> JNull]

-----------------------------------------------------------------------------
(* ask_llm *)

(* the except branch *)
(* variant: a fallback mapping without a decision *)
FallbackNoDecision == JObj([reason |-> JStr("parse error")])
FallbackVerdict == JObj([decision |-> JStr("reject"), reason |-> JStr("parse error")])

(* the flag set after a successful parse *)
(* variant: the flag set the wrong way round *)
ParsedFlagTrue == TRUE
ParsedFlag == FALSE

(* the try block: call, take choices[0].message.content, json.loads *)
(* variant: json.loads placed after the try block *)
RaisesOnlyCall(out) == out.kind \in {"raise", "nochoice"}
Raises(out) ==
  \/ out.kind = "raise"
  \/ out.kind = "nochoice"
  \/ out.kind = "content" /\ ~JsonLoads(out.txt).ok

Completion(out) ==
  IF Raises(out)
  THEN [val |-> FallbackVerdict, fallback |-> TRUE]
  ELSE [val |-> JsonLoads(out.txt).v, fallback |-> ParsedFlag]

(* int(x) of a quotient: truncation toward zero *)
TruncDiv(a, b) == IF a >= 0 THEN a \div b ELSE -((-a) \div b)

(* int((time.time() - start) * 1000) *)
ElapsedMs(t0, t1) == TruncDiv((t1 - t0) * MsPerSec, TicksPerSec)

(* data['latency_ms'] = latency; data['fallback'] = fallback *)
WithMeta(o, lat, fb) ==
  [k \in DOMAIN o \cup {"latency_ms", "fallback"} |->
     IF k = "latency_ms" THEN JNum(lat)
     ELSE IF k = "fallback" THEN JBool(fb)
     ELSE o[k]]

(* item assignment works on a dict only; list, int, str, None raise TypeError *)
Subscriptable(v) == v.t = "obj"

-----------------------------------------------------------------------------
(* The handlers' log entry and response *)

(* int(time.time() * 1000) *)
NowMs(t) == TruncDiv(t * MsPerSec, TicksPerSec)

(* variant: the contact taken from the wrong request field *)
ContactByNote(in) == IF in.ep = "join" THEN in.body.note ELSE in.body.body
Contact(in) == IF in.ep = "join" THEN in.body.name ELSE in.body.author

VerdictKey(ep) == IF ep = "join" THEN "decision" ELSE "is_spam"

LogEntry(in, o, t) ==
  [ts |-> NowMs(t), type |-> in.ep, contact |-> Contact(in),
   decision |-> Get(o, VerdictKey(in.ep)), reason |-> Get(o, "reason"),
   latency_ms |-> Get(o, "latency_ms"), fallback |-> Get(o, "fallback")]

IsSpam(o) == GetDefault(o, "is_spam", JBool(FALSE))

Response(in, o) ==
  IF in.ep = "join"
  THEN [decision |-> Get(o, "decision"), reason |-> Get(o, "reason")]
  ELSE [is_spam |-> IsSpam(o), reason |-> Get(o, "reason")]

NoResp == [status |-> 0, raised |-> "none"]

-----------------------------------------------------------------------------
(* log *)

(* datetime.date.today() *)
Today(t) == t \div TicksPerDay

(* llm-<date>.jsonl *)
(* variant: the date of the entry's ts *)
LogFileOfEntry(t, e) == Today((e.ts * TicksPerSec) \div MsPerSec)
LogFile(t, e) == Today(t)

(* open(file, 'a') ... write: every write lands at the end of the file.  A
   line is handed to the file in two pieces, as the buffered writer does for
   a line longer than its buffer. *)
Chunk(r, part, e) == [w |-> r, part |-> part, entry |-> e]
(* variant: open(file, 'w') *)
FileOverwrite(content, c) == <<c>>
FileAppend(content, c) == Append(content, c)

-----------------------------------------------------------------------------
(* Scheduling: the handlers are coroutines on one event loop.  A queued
   request starts when the loop is free; a started handler keeps the loop
   until it returns, since nothing it awaits ever suspends. *)

(* variant: the log write awaits between its pieces and frees the loop *)
CanRunYielding(r, p) ==
  IF p = "queued"
  THEN (IF running = NoTask THEN TRUE ELSE pc[running] = "log_w2")
  ELSE running = r \/ (p = "log_w2" /\ running = NoTask)
CanRun(r, p) == IF p = "queued" THEN running = NoTask ELSE running = r

InFlight(r) == pc[r] \notin {"new", "done"}

-----------------------------------------------------------------------------
Init ==
  /\ now = 0
  /\ running = NoTask
  /\ pc = [r \in Reqs |-> "new"]
  /\ req = [r \in Reqs |-> NoReq]
  /\ start = [r \in Reqs |-> Unset]
  /\ data = [r \in Reqs |-> NoVal]
  /\ entry = [r \in Reqs |-> NoVal]
  /\ fname = [r \in Reqs |-> Unset]
  /\ files = [d \in Dates |-> <<>>]
  /\ resp = [r \in Reqs |-> NoResp]
  /\ given = [r \in Reqs |-> NoOutcome]
  /\ overlap = FALSE

(* The wall clock advances *)
Tick ==
  /\ now < MaxClock
  /\ now' = now + 1
  /\ UNCHANGED <<running, pc, req, start, data, entry, fname, files, resp,
                 given, overlap>>

(* The wall clock is set back *)
ClockSetBack ==
  /\ \E t \in 0 .. (now - 1) : now' = t
  /\ UNCHANGED <<running, pc, req, start, data, entry, fname, files, resp,
                 given, overlap>>

(* A client posts a request *)
Arrive(r) ==
  /\ pc[r] = "new"
  /\ \A q \in Reqs : q < r => pc[q] # "new"
  /\ \E in \in Inputs : req' = [req EXCEPT ![r] = in]
  /\ pc' = [pc EXCEPT ![r] = "queued"]
  /\ overlap' = (overlap \/ \E q \in Reqs \ {r} : InFlight(q))
  /\ UNCHANGED <<now, running, start, data, entry, fname, files, resp,
                 given>>

(* The handler ends, by returning or by an exception that nothing catches:
   its locals are gone, the loop is free *)
Finish(r, status, body, raised) ==
  /\ pc' = [pc EXCEPT ![r] = "done"]
  /\ resp' = [resp EXCEPT ![r] = [status |-> status, body |-> body, raised |-> raised]]
  /\ running' = IF running = r THEN NoTask ELSE running
  /\ start' = [start EXCEPT ![r] = Unset]
  /\ data' = [data EXCEPT ![r] = NoVal]
  /\ entry' = [entry EXCEPT ![r] = NoVal]
  /\ fname' = [fname EXCEPT ![r] = Unset]

(* Body validation; a body that fails never reaches the handler *)
Dispatch(r) ==
  /\ pc[r] = "queued"
  /\ CanRun(r, "queued")
  /\ IF Valid(req[r])
     THEN /\ pc' = [pc EXCEPT ![r] = "load"]
          /\ running' = r
          /\ UNCHANGED <<start, data, entry, fname, resp>>
     ELSE Finish(r, 422, NoVal, "ValidationError")
  /\ UNCHANGED <<now, req, files, given, overlap>>

(* load_policy: the read succeeds or raises *)
LoadPolicy(r) ==
  /\ pc[r] = "load"
  /\ CanRun(r, "load")
  /\ \E readable \in BOOLEAN :
       IF readable
       THEN /\ pc' = [pc EXCEPT ![r] = "ask_start"]
            /\ UNCHANGED <<running, start, data, entry, fname, resp>>
       ELSE Finish(r, 500, NoVal, "OSError:policy")
  /\ UNCHANGED <<now, req, files, given, overlap>>

(* ask_llm: start = time.time() *)
AskStart(r) ==
  /\ pc[r] = "ask_start"
  /\ CanRun(r, "ask_start")
  /\ start' = [start EXCEPT ![r] = now]
  /\ pc' = [pc EXCEPT ![r] = "ask_call"]
  /\ UNCHANGED <<now, running, req, data, entry, fname, files, resp, given, overlap>>

(* ask_llm: the try / except *)
AskCall(r, outs) ==
  /\ pc[r] = "ask_call"
  /\ CanRun(r, "ask_call")
  /\ \E out \in outs :
       /\ given' = [given EXCEPT ![r] = out]
       /\ data' = [data EXCEPT ![r] = Completion(out)]
  /\ pc' = [pc EXCEPT ![r] = "ask_end"]
  /\ UNCHANGED <<now, running, req, start, entry, fname, files, resp,
                 overlap>>

(* ask_llm: latency, the two item assignments, return *)
AskEnd(r) ==
  /\ pc[r] = "ask_end"
  /\ CanRun(r, "ask_end")
  /\ IF Subscriptable(data[r].val)
     THEN /\ data' = [data EXCEPT ![r] =
                 [val |-> JObj(WithMeta(data[r].val.o,
                                        ElapsedMs(start[r], now),
                                        data[r].fallback)),
                  fallback |-> data[r].fallback]]
          /\ start' = [start EXCEPT ![r] = Unset]
          /\ pc' = [pc EXCEPT ![r] = "entry"]
          /\ UNCHANGED <<running, entry, fname, resp>>
     ELSE Finish(r, 500, NoVal, "TypeError")
  /\ UNCHANGED <<now, req, files, given, overlap>>

(* The handler builds the entry it passes to log *)
BuildEntry(r) ==
  /\ pc[r] = "entry"
  /\ CanRun(r, "entry")
  /\ entry' = [entry EXCEPT ![r] = LogEntry(req[r], data[r].val.o, now)]
  /\ pc' = [pc EXCEPT ![r] = "log_open"]
  /\ UNCHANGED <<now, running, req, start, data, fname, files, resp, given, overlap>>

(* log: name the file by today's date and open it for append; open raises
   when the directory is gone or the path cannot be opened *)
LogOpen(r) ==
  /\ pc[r] = "log_open"
  /\ CanRun(r, "log_open")
  /\ \E opened \in BOOLEAN :
       IF opened
       THEN /\ fname' = [fname EXCEPT ![r] = LogFile(now, entry[r])]
            /\ pc' = [pc EXCEPT ![r] = "log_w1"]
            /\ UNCHANGED <<running, start, data, entry, resp>>
       ELSE Finish(r, 500, NoVal, "OSError:log")
  /\ UNCHANGED <<now, req, files, given, overlap>>

(* log: the first piece of the line reaches the file, or the write raises
   and nothing is written *)
LogWriteHead(r) ==
  /\ pc[r] = "log_w1"
  /\ CanRun(r, "log_w1")
  /\ \E written \in BOOLEAN :
       IF written
       THEN /\ files' = [files EXCEPT ![fname[r]] =
                          FileAppend(@, Chunk(r, 1, entry[r]))]
            /\ pc' = [pc EXCEPT ![r] = "log_w2"]
            /\ UNCHANGED <<running, start, data, entry, fname, resp>>
       ELSE /\ Finish(r, 500, NoVal, "OSError:log")
            /\ UNCHANGED files
  /\ UNCHANGED <<now, req, given, overlap>>

(* log: the rest of the line and its newline reach the file and the with
   block closes it.  The write raises and the first piece stays without its
   end; or the whole line is in the file and the close raises all the same;
   or the close succeeds and log returns *)
LogWriteTail(r) ==
  /\ pc[r] = "log_w2"
  /\ CanRun(r, "log_w2")
  /\ \E out \in {"closed", "write_raises", "close_raises"} :
       /\ files' = IF out = "write_raises"
                   THEN files
                   ELSE [files EXCEPT ![fname[r]] =
                           FileAppend(@, Chunk(r, 2, entry[r]))]
       /\ IF out = "closed"
          THEN /\ pc' = [pc EXCEPT ![r] = "respond"]
               /\ UNCHANGED <<running, start, data, entry, fname, resp>>
          ELSE Finish(r, 500, NoVal, "OSError:log")
  /\ UNCHANGED <<now, req, given, overlap>>

(* The handler returns its response *)
Respond(r) ==
  /\ pc[r] = "respond"
  /\ CanRun(r, "respond")
  /\ Finish(r, 200, Response(req[r], data[r].val.o), "none")
  /\ UNCHANGED <<now, req, files, given, overlap>>

(* One request, and everything the backend can do *)
Next ==
  \/ Tick
  \/ ClockSetBack
  \/ Arrive(1)
  \/ Dispatch(1)
  \/ LoadPolicy(1)
  \/ AskStart(1)
  \/ AskCall(1, Outcomes)
  \/ AskEnd(1)
  \/ BuildEntry(1)
  \/ LogOpen(1)
  \/ LogWriteHead(1)
  \/ LogWriteTail(1)
  \/ Respond(1)

Spec == Init /\ [][Next]_vars

(* Two requests in flight in one process, the backend raising, answering a
   verdict for either endpoint, or answering a list *)
PairOutcomes ==
  {[kind |-> "raise"]}
    \cup {[kind |-> "content", txt |-> x] : x \in {TxtApprove, TxtClean, TxtList}}

NextPair ==
  \/ Tick
  \/ ClockSetBack
  \/ \E r \in Reqs : Arrive(r)
  \/ \E r \in Reqs : Dispatch(r)
  \/ \E r \in Reqs : LoadPolicy(r)
  \/ \E r \in Reqs : AskStart(r)
  \/ \E r \in Reqs : AskCall(r, PairOutcomes)
  \/ \E r \in Reqs : AskEnd(r)
  \/ \E r \in Reqs : BuildEntry(r)
  \/ \E r \in Reqs : LogOpen(r)
  \/ \E r \in Reqs : LogWriteHead(r)
  \/ \E r \in Reqs : LogWriteTail(r)
  \/ \E r \in Reqs : Respond(r)

SpecPair == Init /\ [][NextPair]_vars

-----------------------------------------------------------------------------
(* Vocabulary of the properties *)

Done(r) == pc[r] = "done"
Ok(r) == Done(r) /\ resp[r].status = 200
(* the request ended in an exception raised by open, write or close in log *)
LogFailed(r) == Done(r) /\ resp[r].raised = "OSError:log"
(* the request ended in an exception raised by load_policy *)
PolicyFailed(r) == Done(r) /\ resp[r].raised = "OSError:policy"
(* the log line is on disk and the handler has not returned yet *)
Logged(r) == pc[r] = "respond"

Positions == UNION {{<<d, i>> : i \in DOMAIN files[d]} : d \in Dates}
ChunkAt(p) == files[p[1]][p[2]]
LinesOf(r) == {p \in Positions : ChunkAt(p).w = r /\ ChunkAt(p).part = 2}
EntriesOf(r) == {ChunkAt(p).entry : p \in LinesOf(r)}
AllLines == {p \in Positions : ChunkAt(p).part = 2}

GaveText(r, x) == given[r] = [kind |-> "content", txt |-> x]
(* the backend raised, or its content is not JSON *)
BackendFailed(r) == given[r] = [kind |-> "raise"] \/ GaveText(r, TxtProse)
(* the backend's content is a JSON object without the endpoint's verdict key *)
LacksVerdict(r) ==
  \/ req[r].ep = "join" /\ \E x \in {TxtEmpty, TxtClean, TxtSpamStr} : GaveText(r, x)
  \/ req[r].ep = "message" /\ \E x \in {TxtEmpty, TxtApprove, TxtMeta} : GaveText(r, x)
(* the backend's content is a JSON object with the endpoint's fields *)
CarriesVerdict(r) ==
  \/ req[r].ep = "join" /\ \E x \in {TxtApprove, TxtMeta} : GaveText(r, x)
  \/ req[r].ep = "message" /\ \E x \in {TxtClean, TxtSpamStr} : GaveText(r, x)
Parsed(r) == JsonLoads(given[r].txt).v.o

(* the request was answered 200, or it ended in the unhandled error of a
   failed log append, which leaves no line or, when only the close failed,
   the one complete line *)
OkOrLogFailed(r) ==
  \/ resp[r].status = 200
  \/ LogFailed(r) /\ resp[r].status = 500 /\ Cardinality(LinesOf(r)) <= 1

-----------------------------------------------------------------------------
(* C1: every request with a valid body and a readable policy file is
   answered 200, whatever the backend raised or returned (non-JSON, or JSON
   of any shape, a list, number, string or null included). *)
C1_AlwaysOk ==
  \A r \in Reqs :
     (Done(r) /\ Valid(req[r]) /\ ~PolicyFailed(r)) => resp[r].status = 200

(* C2, as stated: when the backend raises or returns non-JSON content, the
   request is answered 200 and its log entry has fallback = true and
   reason = "parse error". *)
C2_FallbackAlwaysOk ==
  \A r \in Reqs : (Done(r) /\ BackendFailed(r)) =>
     /\ resp[r].status = 200
     /\ Cardinality(LinesOf(r)) = 1
     /\ \A e \in EntriesOf(r) :
          e.fallback = JBool(TRUE) /\ e.reason = JStr("parse error")

(* C2, amended: when the backend raises or returns non-JSON content, the
   request is answered 200 and its one log entry has fallback = true and
   reason = "parse error", unless appending the log entry itself fails,
   which ends the request in an unhandled error. *)
C2_FallbackLogged ==
  \A r \in Reqs : (Done(r) /\ BackendFailed(r)) =>
     /\ OkOrLogFailed(r)
     /\ Ok(r) => Cardinality(LinesOf(r)) = 1
     /\ \A e \in EntriesOf(r) :
          e.fallback = JBool(TRUE) /\ e.reason = JStr("parse error")

C2_Witness ==
  \E r \in Reqs : Ok(r) /\ GaveText(r, TxtProse) /\ req[r].ep = "message"
                   /\ \E e \in EntriesOf(r) : e.fallback = JBool(TRUE)

(* C3, as stated: on the fallback path /vet_join answers decision = null and
   /vet_message answers is_spam = false. *)
C3_JoinDecisionNull ==
  \A r \in Reqs : (Ok(r) /\ BackendFailed(r)) =>
     IF req[r].ep = "join"
     THEN resp[r].body.decision = JNull
     ELSE resp[r].body.is_spam = JBool(FALSE)

(* C3, amended: on the fallback path the response of /vet_join has the
   fallback verdict's decision = "reject" and reason = "parse error", and
   the response of /vet_message has is_spam = false (defaulted, the fallback
   verdict has no is_spam key) and reason = "parse error". *)
C3_FallbackResponse ==
  \A r \in Reqs : (Ok(r) /\ BackendFailed(r)) =>
     /\ resp[r].body.reason = JStr("parse error")
     /\ IF req[r].ep = "join"
        THEN resp[r].body.decision = JStr("reject")
        ELSE resp[r].body.is_spam = JBool(FALSE)

C3_Witness ==
  \E r \in Reqs : Ok(r) /\ given[r] = [kind |-> "raise"] /\ req[r].ep = "join"
                   /\ resp[r].body.decision = JStr("reject")

(* C4, as stated: every handled request (one answered 200) has appended
   exactly one log line, the fallback path included, and the log holds as
   many lines as requests were handled. *)
C4_EntriesEqualHandled ==
  /\ \A r \in Reqs : (Ok(r) \/ Logged(r)) => Cardinality(LinesOf(r)) = 1
  /\ Cardinality(AllLines) = Cardinality({r \in Reqs : Ok(r) \/ Logged(r)})

(* C4, amended: every handled request (one answered 200) has appended exactly
   one log line, the fallback path included, and no request appends more
   than one.  A request that ended in an unhandled error has a line only
   when log itself raised after the line was written (the close failed), so
   the log holds one line per handled request plus at most one per request
   whose log call raised. *)
C4_OneEntryPerRequest ==
  /\ \A r \in Reqs : (Ok(r) \/ Logged(r)) => Cardinality(LinesOf(r)) = 1
  /\ \A r \in Reqs : Cardinality(LinesOf(r)) <= 1
  /\ \A r \in Reqs : (Done(r) /\ ~Ok(r) /\ LinesOf(r) # {}) => LogFailed(r)
  /\ Cardinality(AllLines)
       = Cardinality({r \in Reqs : Ok(r) \/ Logged(r)})
         + Cardinality({r \in Reqs : LogFailed(r) /\ LinesOf(r) # {}})

C4_Witness ==
  /\ \E r \in Reqs : Ok(r) /\ given[r] = [kind |-> "raise"]
  /\ \E r \in Reqs : LogFailed(r) /\ LinesOf(r) # {}
  /\ Cardinality(AllLines) = 2

(* C5, as stated: when the backend's content is a JSON object carrying the
   expected fields, the answer is 200 with those values verbatim, and exactly
   one log line is appended whose type is the endpoint, whose contact is the
   request's name (join) or author (message), and whose fallback is false. *)
C5_VerdictAlwaysOk ==
  \A r \in Reqs : (Done(r) /\ CarriesVerdict(r)) =>
     /\ resp[r].status = 200
     /\ resp[r].body.reason = Parsed(r).reason
     /\ IF req[r].ep = "join"
        THEN resp[r].body.decision = Parsed(r).decision
        ELSE resp[r].body.is_spam = Parsed(r).is_spam
     /\ Cardinality(LinesOf(r)) = 1
     /\ \A e \in EntriesOf(r) :
          /\ e.type = req[r].ep
          /\ e.contact = IF req[r].ep = "join" THEN req[r].body.name
                                               ELSE req[r].body.author
          /\ e.fallback = JBool(FALSE)

(* C5, amended: the same, unless appending the log entry itself fails, which
   ends the request in an unhandled error; the line is then absent, or
   complete when only the close failed. *)
C5_VerdictPassedThrough ==
  \A r \in Reqs : (Done(r) /\ CarriesVerdict(r)) =>
     /\ OkOrLogFailed(r)
     /\ Ok(r) =>
          /\ resp[r].body.reason = Parsed(r).reason
          /\ IF req[r].ep = "join"
             THEN resp[r].body.decision = Parsed(r).decision
             ELSE resp[r].body.is_spam = Parsed(r).is_spam
          /\ Cardinality(LinesOf(r)) = 1
     /\ \A e \in EntriesOf(r) :
          /\ e.type = req[r].ep
          /\ e.contact = IF req[r].ep = "join" THEN req[r].body.name
                                               ELSE req[r].body.author
          /\ e.fallback = JBool(FALSE)

C5_Witness ==
  \E r \in Reqs : Ok(r) /\ req[r].ep = "join" /\ GaveText(r, TxtMeta)
                   /\ resp[r].body.decision = JStr("approve")
                   /\ \E e \in EntriesOf(r) : e.contact = "ann"

(* C6: in every 200 answer of /vet_message, is_spam is a boolean: the
   verdict's is_spam when the key is present, false when it is absent. *)
C6_IsSpamBoolean ==
  \A r \in Reqs : (Ok(r) /\ req[r].ep = "message") =>
     /\ resp[r].body.is_spam.t = "bool"
     /\ (given[r].kind = "content" /\ JsonLoads(given[r].txt).ok) =>
          resp[r].body.is_spam = GetDefault(Parsed(r), "is_spam", JBool(FALSE))

(* C7: requests in flight together in one process leave complete log lines:
   the two pieces of a handled request's line are adjacent, nothing of
   another request lies between them, and no handled request's line is
   missing.  A first piece without its end belongs to the request writing
   right now, or to one whose write failed. *)
C7_NoInterleaving ==
  /\ \A p \in Positions :
       LET d == p[1]
           i == p[2]
           c == ChunkAt(p)
       IN  /\ c.part = 1 =>
                \/ i < Len(files[d]) /\ files[d][i + 1] = Chunk(c.w, 2, c.entry)
                \/ i = Len(files[d]) /\ pc[c.w] = "log_w2" /\ fname[c.w] = d
                \/ LogFailed(c.w)
           /\ c.part = 2 => (i > 1 /\ files[d][i - 1] = Chunk(c.w, 1, c.entry))
  /\ \A r \in Reqs : Ok(r) => Cardinality(LinesOf(r)) = 1

C7_Witness ==
  /\ overlap
  /\ \A r \in Reqs : Ok(r)
  /\ \E d \in Dates : \A r \in Reqs : \E p \in LinesOf(r) : p[1] = d

(* C8: the file an entry goes to is named by the date at the moment log()
   runs: log() names its file by the clock's date at that step, and the
   pieces of the line are appended to that file and to no other, also
   when the close after the last piece raises. *)
C8_FileNamedAtLogTime ==
  [][\A r \in Reqs :
       /\ (pc[r] = "log_open" /\ pc'[r] = "log_w1") =>
            fname'[r] = now \div TicksPerDay
       /\ (pc[r] \in {"log_w1", "log_w2"} /\ pc'[r] # pc[r]
                                         /\ pc'[r] \in {"log_w2", "respond"}) =>
            /\ fname'[r] = fname[r]
            /\ \A d \in Dates :
                 IF d = fname[r]
                 THEN /\ Len(files'[d]) = Len(files[d]) + 1
                      /\ SubSeq(files'[d], 1, Len(files[d])) = files[d]
                      /\ files'[d][Len(files'[d])].w = r
                 ELSE files'[d] = files[d]
       /\ \A d \in Dates :
            (pc[r] # pc'[r] /\ files'[d] # files[d]) =>
               pc[r] \in {"log_w1", "log_w2"} /\ fname[r] = d]_vars

(* a request posted while another was in flight, hence before the first
   entry was logged, has its own entry in a later day's file than that one *)
C8_Witness ==
  /\ overlap
  /\ Ok(1) /\ Logged(2)
  /\ \E p \in LinesOf(1) : p[1] < fname[2]
  /\ \E p \in LinesOf(2) : p[1] = fname[2]

(* C9: latency_ms of every log entry is a non-negative integer, the whole
   milliseconds between the clock read just before the backend call and the
   one just after it, even when the backend's JSON has its own latency_ms
   key: ask_llm returns that value, and the handler logs it unchanged. *)
C9_LatencyOfCallOnly ==
  [][\A r \in Reqs :
       /\ (pc[r] = "ask_end" /\ pc'[r] = "entry") =>
            LET lat == data'[r].val.o.latency_ms
                dur == (now - start[r]) * 1000
                abs(x) == IF x >= 0 THEN x ELSE -x
            IN  /\ lat.t = "num"
                /\ lat.n >= 0
                /\ abs(lat.n) * TicksPerSec <= abs(dur)
                /\ abs(dur) < (abs(lat.n) + 1) * TicksPerSec
                /\ lat.n * dur >= 0
       /\ (pc[r] = "entry" /\ pc'[r] = "log_open") =>
            entry'[r].latency_ms = data[r].val.o.latency_ms
       /\ (pc[r] \in {"log_w1", "log_w2"} /\ pc'[r] # pc[r]
                                         /\ pc'[r] \in {"log_w2", "respond"}) =>
            files'[fname[r]][Len(files'[fname[r]])].entry.latency_ms
              = data[r].val.o.latency_ms]_vars

(* C10, as stated: valid JSON lacking the expected field makes the client
   fall back: the log entry has fallback = true and reason = "parse error",
   and the caller is answered 200. *)
C10_MissingFieldFallsBack ==
  \A r \in Reqs : (Ok(r) /\ LacksVerdict(r)) =>
     \A e \in EntriesOf(r) :
        e.fallback = JBool(TRUE) /\ e.reason = JStr("parse error")

(* C10, amended: a JSON object lacking the expected field is not a fallback
   and raises nothing: unless appending the log entry itself fails, the
   caller is answered 200, the one log entry has fallback = false, a null
   decision and the object's own reason (null if it has none); /vet_join
   answers decision = null and /vet_message is_spam = false. *)
C10_MissingFieldPassesThrough ==
  \A r \in Reqs : (Done(r) /\ LacksVerdict(r)) =>
     /\ OkOrLogFailed(r)
     /\ \A e \in EntriesOf(r) :
          /\ e.fallback = JBool(FALSE)
          /\ e.decision = JNull
          /\ e.reason = Get(Parsed(r), "reason")
     /\ Ok(r) =>
          /\ Cardinality(LinesOf(r)) = 1
          /\ resp[r].body.reason = Get(Parsed(r), "reason")
          /\ IF req[r].ep = "join"
             THEN resp[r].body.decision = JNull
             ELSE resp[r].body.is_spam = JBool(FALSE)

C10_Witness ==
  \E r \in Reqs : Ok(r) /\ req[r].ep = "join" /\ GaveText(r, TxtEmpty)
                   /\ resp[r].body.decision = JNull

====
